---- MODULE Spec2Model ----
(***************************************************************************)
(* The booking saga of AI_Travel_Planner: TransactionManager               *)
(* (src/txn_manager.py) driving the items of one BookingRequest            *)
(* (src/booking_schemas.py) through reserve_all, confirm_all and           *)
(* compensate against providers that answer with ProviderResponse objects  *)
(* (src/booking_tools.py) or raise.                                        *)
(***************************************************************************)
EXTENDS Integers, Sequences, FiniteSets, TLC

\* ---------------------------------------------------------------- bounds
MaxItems == 2   \* items of the request under orchestration
MaxCalls == 3   \* orchestrator calls made in one behaviour
MaxPasses == 3  \* planner passes of one run of the planning graph

\* ------------------------------------------------------------ data model
ItemTypes == {"flight", "hotel", "attraction", "cab"}
ItemStatuses == {"pending", "held", "confirmed", "failed", "cancelled"}
RequestStatuses == {"created", "authorized", "confirmed", "failed", "cancelled"}

\* the item types of the requests explored: one with no provider mapped,
\* two with a provider
RequestTypes == {"flight", "hotel", "attraction"}

\* Optional[str] = None: the absent id
None == "None"
\* ids a provider may hand out for a hold / a confirmation
HoldIds == {"hold-a", "hold-b"}
ConfirmedIds == {"CONF-a", "CONF-b"}

\* a dict is a function from its keys to its values
EmptyDict == [k \in {} |-> "x"]
Dict(k, v) == [x \in {k} |-> v]

\* dict.update(other): keys of other win, the rest is kept
DictUpdate(m, other) ==
    [k \in (DOMAIN m) \cup (DOMAIN other) |->
        IF k \in DOMAIN other THEN other[k] ELSE m[k]]

\* a BookingItem as constructed by the caller: defaults of the schema
NewItem(t) ==
    [item_type |-> t, status |-> "pending", hold_id |-> None,
     confirmed_id |-> None, meta |-> EmptyDict]

\* the item_type -> provider mapping given to the orchestrator
providers == {"flight", "hotel", "cab"}

\* ----------------------------------------------------- provider answers
\* ProviderResponse.__init__: raw is always a dict (raw or {})
ProviderResponse(success, hold_id, confirmed_id, raw) ==
    [raises |-> FALSE, success |-> success, hold_id |-> hold_id,
     confirmed_id |-> confirmed_id, raw |-> raw]

\* the call does not answer: it raises (transport error, timeout)
Raises ==
    [raises |-> TRUE, success |-> FALSE, hold_id |-> None,
     confirmed_id |-> None, raw |-> EmptyDict]

ReserveAnswers ==
    {ProviderResponse(TRUE, h, None, Dict("price", "quoted")) : h \in HoldIds}
    \cup {ProviderResponse(FALSE, None, None, r) :
            r \in {EmptyDict, Dict("error", "sold_out")}}
    \cup {Raises}

ConfirmAnswers ==
    {ProviderResponse(TRUE, None, "CONF-a", Dict("ticket", "issued")),
     ProviderResponse(TRUE, None, "CONF-b", Dict("price", "charged")),
     ProviderResponse(FALSE, None, None, EmptyDict),
     ProviderResponse(FALSE, None, None, Dict("error", "declined")),
     Raises}

\* cancel_hold returns a bool or raises
CancelAnswers == {"true", "false", "raises"}

\* ------------------------------------------------------------------ state
VARIABLES
    items,        \* request.items: sequence of BookingItem
    status,       \* request.status
    calls,        \* the orchestrator calls made so far, in order
    returned,     \* whether the last call returned (FALSE: an exception escaped)
    before,       \* request.items as they were when the last call started
    log,          \* the provider calls issued by the last call, in order
    failures,     \* compensation failures handed to the caller by the last call
    unreleased,   \* items whose CancelHold failed and has not succeeded since
    db,           \* the stored bookings, by database id
    handlers,     \* the executions of the payment-completed handler
    confirms,     \* Confirm calls the providers received, per item
    saved,        \* the bookings written back to the database, in order
    payload,      \* the provider-status notification applied last
    messages,     \* AgentState.messages of the planning graph
    node          \* the node of the planning graph that runs next

\* the state of the orchestrator working on one request in memory
saga == <<items, status, calls, returned, before, log, failures, unreleased>>
\* the state of the persistence layer and of the endpoints working on it
storage == <<db, handlers, confirms, saved, payload>>
\* the state of the planning graph
planning == <<messages, node>>

vars == <<items, status, calls, returned, before, log, failures, unreleased,
          db, handlers, confirms, saved, payload, messages, node>>

\* no stored booking is involved, and no planning run
NoStorage ==
    /\ db = << >>
    /\ handlers = << >>
    /\ confirms = << >>
    /\ saved = << >>
    /\ payload = << >>
NoPlanning == messages = << >> /\ node = "none"

Idx == 1..Len(items)

\* the items a call of the operation asks a provider about: only their
\* answers are inputs of the operation
Reserved == {i \in Idx : items[i].item_type \in providers}
Held == {i \in Idx : items[i].status = "held" /\ items[i].item_type \in providers}
Holding == {i \in Idx : items[i].hold_id # None /\ items[i].item_type \in providers}

\* one provider call as the log keeps it: the operation, the item it was made
\* for, how the provider answered, the payload of the answer and the hold id
\* the call was about
Call(op, i, answer, raw, hold_id) ==
    [op |-> op, item |-> i, answer |-> answer, raw |-> raw, hold_id |-> hold_id]

\* --------------------------------------------------------------- reserve_all
\* reserve_all with the no-provider branch forgetting to mark the item
RECURSIVE ReserveLoop_SkipsUnmapped(_, _, _, _)
ReserveLoop_SkipsUnmapped(its, rs, i, lg) ==
    IF i > Len(its) THEN [items |-> its, log |-> lg, returned |-> TRUE]
    ELSE IF its[i].item_type \notin providers
    THEN ReserveLoop_SkipsUnmapped(its, rs, i + 1, lg)
    ELSE LET resp == rs[i]
             lg2 == Append(lg, Call("reserve", i,
                        IF resp.raises THEN "raises"
                        ELSE IF resp.success THEN "success" ELSE "failure",
                        resp.raw, resp.hold_id))
         IN  IF resp.raises
             THEN [items |-> its, log |-> lg2, returned |-> FALSE]
             ELSE IF resp.success
             THEN ReserveLoop_SkipsUnmapped(
                    [its EXCEPT ![i].hold_id = resp.hold_id,
                                ![i].status = "held",
                                ![i].meta = resp.raw],
                    rs, i + 1, lg2)
             ELSE ReserveLoop_SkipsUnmapped(
                    [its EXCEPT ![i].status = "failed",
                                ![i].meta = resp.raw],
                    rs, i + 1, lg2)

\* reserve_all leaving the loop at the first item without a provider
RECURSIVE ReserveLoop_StopsAtUnmapped(_, _, _, _)
ReserveLoop_StopsAtUnmapped(its, rs, i, lg) ==
    IF i > Len(its) THEN [items |-> its, log |-> lg, returned |-> TRUE]
    ELSE IF its[i].item_type \notin providers
    THEN [items |-> [its EXCEPT ![i].status = "failed",
                                ![i].meta = Dict("error", "no_provider")],
          log |-> lg, returned |-> TRUE]
    ELSE LET resp == rs[i]
             lg2 == Append(lg, Call("reserve", i,
                        IF resp.raises THEN "raises"
                        ELSE IF resp.success THEN "success" ELSE "failure",
                        resp.raw, resp.hold_id))
         IN  IF resp.raises
             THEN [items |-> its, log |-> lg2, returned |-> FALSE]
             ELSE IF resp.success
             THEN ReserveLoop_StopsAtUnmapped(
                    [its EXCEPT ![i].hold_id = resp.hold_id,
                                ![i].status = "held",
                                ![i].meta = resp.raw],
                    rs, i + 1, lg2)
             ELSE ReserveLoop_StopsAtUnmapped(
                    [its EXCEPT ![i].status = "failed",
                                ![i].meta = resp.raw],
                    rs, i + 1, lg2)

\* reserve_all taking the hold id of every answer, so that a rejected
\* Reserve wipes the hold id the item had
RECURSIVE ReserveLoop_TakesHoldIdAlways(_, _, _, _)
ReserveLoop_TakesHoldIdAlways(its, rs, i, lg) ==
    IF i > Len(its) THEN [items |-> its, log |-> lg, returned |-> TRUE]
    ELSE IF its[i].item_type \notin providers
    THEN ReserveLoop_TakesHoldIdAlways(
            [its EXCEPT ![i].status = "failed",
                        ![i].meta = Dict("error", "no_provider")],
            rs, i + 1, lg)
    ELSE LET resp == rs[i]
             lg2 == Append(lg, Call("reserve", i,
                        IF resp.raises THEN "raises"
                        ELSE IF resp.success THEN "success" ELSE "failure",
                        resp.raw, resp.hold_id))
         IN  IF resp.raises
             THEN [items |-> its, log |-> lg2, returned |-> FALSE]
             ELSE IF resp.success
             THEN ReserveLoop_TakesHoldIdAlways(
                    [its EXCEPT ![i].hold_id = resp.hold_id,
                                ![i].status = "held",
                                ![i].meta = resp.raw],
                    rs, i + 1, lg2)
             ELSE ReserveLoop_TakesHoldIdAlways(
                    [its EXCEPT ![i].hold_id = resp.hold_id,
                                ![i].status = "failed",
                                ![i].meta = resp.raw],
                    rs, i + 1, lg2)

\* reserve_all trying a rejected Reserve once more before giving the item up
RECURSIVE ReserveLoop_RetriesRejected(_, _, _, _)
ReserveLoop_RetriesRejected(its, rs, i, lg) ==
    IF i > Len(its) THEN [items |-> its, log |-> lg, returned |-> TRUE]
    ELSE IF its[i].item_type \notin providers
    THEN ReserveLoop_RetriesRejected(
            [its EXCEPT ![i].status = "failed",
                        ![i].meta = Dict("error", "no_provider")],
            rs, i + 1, lg)
    ELSE LET resp == rs[i]
             lg2 == Append(lg, Call("reserve", i,
                        IF resp.raises THEN "raises"
                        ELSE IF resp.success THEN "success" ELSE "failure",
                        resp.raw, resp.hold_id))
         IN  IF resp.raises
             THEN [items |-> its, log |-> lg2, returned |-> FALSE]
             ELSE IF resp.success
             THEN ReserveLoop_RetriesRejected(
                    [its EXCEPT ![i].hold_id = resp.hold_id,
                                ![i].status = "held",
                                ![i].meta = resp.raw],
                    rs, i + 1, lg2)
             ELSE ReserveLoop_RetriesRejected(
                    [its EXCEPT ![i].status = "failed",
                                ![i].meta = resp.raw],
                    rs, i + 1,
                    Append(lg2, Call("reserve", i, "failure",
                                     resp.raw, resp.hold_id)))

\* one pass of the loop body for item i, then the rest of the loop
RECURSIVE ReserveLoop(_, _, _, _)
ReserveLoop(its, rs, i, lg) ==
    IF i > Len(its) THEN [items |-> its, log |-> lg, returned |-> TRUE]
    ELSE IF its[i].item_type \notin providers
    THEN ReserveLoop(
            [its EXCEPT ![i].status = "failed",
                        ![i].meta = Dict("error", "no_provider")],
            rs, i + 1, lg)
    ELSE LET resp == rs[i]
             lg2 == Append(lg, Call("reserve", i,
                        IF resp.raises THEN "raises"
                        ELSE IF resp.success THEN "success" ELSE "failure",
                        resp.raw, resp.hold_id))
         IN  IF resp.raises
             THEN [items |-> its, log |-> lg2, returned |-> FALSE]
             ELSE IF resp.success
             THEN ReserveLoop(
                    [its EXCEPT ![i].hold_id = resp.hold_id,
                                ![i].status = "held",
                                ![i].meta = resp.raw],
                    rs, i + 1, lg2)
             ELSE ReserveLoop(
                    [its EXCEPT ![i].status = "failed",
                                ![i].meta = resp.raw],
                    rs, i + 1, lg2)

\* ---------------------------------------------------------------- compensate
\* compensate marking every released item cancelled, confirmed ones too
RECURSIVE CompensateLoop_CancelsConfirmed(_, _, _, _)
CompensateLoop_CancelsConfirmed(its, xs, i, lg) ==
    IF i > Len(its) THEN [items |-> its, log |-> lg]
    ELSE IF its[i].hold_id = None \/ its[i].item_type \notin providers
    THEN CompensateLoop_CancelsConfirmed(its, xs, i + 1, lg)
    ELSE LET lg2 == Append(lg, Call("cancel_hold", i, xs[i], EmptyDict, its[i].hold_id))
         IN  IF xs[i] = "raises"
             THEN CompensateLoop_CancelsConfirmed(its, xs, i + 1, lg2)
             ELSE CompensateLoop_CancelsConfirmed(
                    [its EXCEPT ![i].status = "cancelled"], xs, i + 1, lg2)

\* compensate marking an item cancelled only while it is still held
RECURSIVE CompensateLoop_OnlyHeld(_, _, _, _)
CompensateLoop_OnlyHeld(its, xs, i, lg) ==
    IF i > Len(its) THEN [items |-> its, log |-> lg]
    ELSE IF its[i].hold_id = None \/ its[i].item_type \notin providers
    THEN CompensateLoop_OnlyHeld(its, xs, i + 1, lg)
    ELSE LET lg2 == Append(lg, Call("cancel_hold", i, xs[i], EmptyDict, its[i].hold_id))
         IN  IF xs[i] # "raises" /\ its[i].status = "held"
             THEN CompensateLoop_OnlyHeld(
                    [its EXCEPT ![i].status = "cancelled"], xs, i + 1, lg2)
             ELSE CompensateLoop_OnlyHeld(its, xs, i + 1, lg2)

RECURSIVE CompensateLoop(_, _, _, _)
CompensateLoop(its, xs, i, lg) ==
    IF i > Len(its) THEN [items |-> its, log |-> lg]
    ELSE IF its[i].hold_id = None
    THEN CompensateLoop(its, xs, i + 1, lg)
    ELSE IF its[i].item_type \notin providers
    \* provider is None: the AttributeError is swallowed by the except
    THEN CompensateLoop(its, xs, i + 1, lg)
    ELSE LET lg2 == Append(lg, Call("cancel_hold", i, xs[i], EmptyDict, its[i].hold_id))
         IN  IF xs[i] = "raises"
             THEN CompensateLoop(its, xs, i + 1, lg2)
             \* the value cancel_hold returns is not looked at
             ELSE IF its[i].status # "confirmed"
             THEN CompensateLoop([its EXCEPT ![i].status = "cancelled"],
                                 xs, i + 1, lg2)
             ELSE CompensateLoop(its, xs, i + 1, lg2)

\* --------------------------------------------------------------- confirm_all
\* confirm_all replacing meta by the Confirm payload instead of merging it
RECURSIVE ConfirmLoop_ReplacesMeta(_, _, _, _)
ConfirmLoop_ReplacesMeta(its, cs, i, lg) ==
    IF i > Len(its) THEN [items |-> its, log |-> lg, returned |-> TRUE]
    ELSE IF its[i].status # "held"
    THEN ConfirmLoop_ReplacesMeta(its, cs, i + 1, lg)
    ELSE IF its[i].item_type \notin providers
    THEN [items |-> its, log |-> lg, returned |-> FALSE]
    ELSE LET resp == cs[i]
             lg2 == Append(lg, Call("confirm", i,
                        IF resp.raises THEN "raises"
                        ELSE IF resp.success THEN "success" ELSE "failure",
                        resp.raw, its[i].hold_id))
         IN  IF resp.raises
             THEN [items |-> its, log |-> lg2, returned |-> FALSE]
             ELSE IF resp.success
             THEN ConfirmLoop_ReplacesMeta(
                    [its EXCEPT ![i].confirmed_id = resp.confirmed_id,
                                ![i].status = "confirmed",
                                ![i].meta = resp.raw],
                    cs, i + 1, lg2)
             ELSE ConfirmLoop_ReplacesMeta(
                    [its EXCEPT ![i].status = "failed",
                                ![i].meta = resp.raw],
                    cs, i + 1, lg2)

\* confirm_all skipping only the items it has nothing to confirm for, and so
\* confirming a cancelled item as well as a held one
RECURSIVE ConfirmLoop_AlsoCancelled(_, _, _, _)
ConfirmLoop_AlsoCancelled(its, cs, i, lg) ==
    IF i > Len(its) THEN [items |-> its, log |-> lg, returned |-> TRUE]
    ELSE IF its[i].status \notin {"held", "cancelled"}
    THEN ConfirmLoop_AlsoCancelled(its, cs, i + 1, lg)
    ELSE IF its[i].item_type \notin providers
    THEN [items |-> its, log |-> lg, returned |-> FALSE]
    ELSE LET resp == IF i \in DOMAIN cs THEN cs[i]
                     ELSE ProviderResponse(FALSE, None, None, EmptyDict)
             lg2 == Append(lg, Call("confirm", i,
                        IF resp.raises THEN "raises"
                        ELSE IF resp.success THEN "success" ELSE "failure",
                        resp.raw, its[i].hold_id))
         IN  IF resp.raises
             THEN [items |-> its, log |-> lg2, returned |-> FALSE]
             ELSE IF resp.success
             THEN ConfirmLoop_AlsoCancelled(
                    [its EXCEPT ![i].confirmed_id = resp.confirmed_id,
                                ![i].status = "confirmed",
                                ![i].meta = DictUpdate(@, resp.raw)],
                    cs, i + 1, lg2)
             ELSE ConfirmLoop_AlsoCancelled(
                    [its EXCEPT ![i].status = "failed",
                                ![i].meta = DictUpdate(@, resp.raw)],
                    cs, i + 1, lg2)

\* confirm_all giving up at the first rejected Confirm, leaving the items
\* after it unconfirmed when the decision is taken
RECURSIVE ConfirmLoop_StopsAtFailure(_, _, _, _)
ConfirmLoop_StopsAtFailure(its, cs, i, lg) ==
    IF i > Len(its) THEN [items |-> its, log |-> lg, returned |-> TRUE]
    ELSE IF its[i].status # "held"
    THEN ConfirmLoop_StopsAtFailure(its, cs, i + 1, lg)
    ELSE IF its[i].item_type \notin providers
    THEN [items |-> its, log |-> lg, returned |-> FALSE]
    ELSE LET resp == cs[i]
             lg2 == Append(lg, Call("confirm", i,
                        IF resp.raises THEN "raises"
                        ELSE IF resp.success THEN "success" ELSE "failure",
                        resp.raw, its[i].hold_id))
         IN  IF resp.raises
             THEN [items |-> its, log |-> lg2, returned |-> FALSE]
             ELSE IF resp.success
             THEN ConfirmLoop_StopsAtFailure(
                    [its EXCEPT ![i].confirmed_id = resp.confirmed_id,
                                ![i].status = "confirmed",
                                ![i].meta = DictUpdate(@, resp.raw)],
                    cs, i + 1, lg2)
             ELSE [items |-> [its EXCEPT ![i].status = "failed",
                                         ![i].meta = DictUpdate(@, resp.raw)],
                   log |-> lg2, returned |-> TRUE]

RECURSIVE ConfirmLoop(_, _, _, _)
ConfirmLoop(its, cs, i, lg) ==
    IF i > Len(its) THEN [items |-> its, log |-> lg, returned |-> TRUE]
    ELSE IF its[i].status # "held"
    THEN ConfirmLoop(its, cs, i + 1, lg)
    ELSE IF its[i].item_type \notin providers
    \* provider is None: None.confirm raises AttributeError
    THEN [items |-> its, log |-> lg, returned |-> FALSE]
    ELSE LET resp == cs[i]
             lg2 == Append(lg, Call("confirm", i,
                        IF resp.raises THEN "raises"
                        ELSE IF resp.success THEN "success" ELSE "failure",
                        resp.raw, its[i].hold_id))
         IN  IF resp.raises
             THEN [items |-> its, log |-> lg2, returned |-> FALSE]
             ELSE IF resp.success
             THEN ConfirmLoop(
                    [its EXCEPT ![i].confirmed_id = resp.confirmed_id,
                                ![i].status = "confirmed",
                                ![i].meta = DictUpdate(@, resp.raw)],
                    cs, i + 1, lg2)
             ELSE ConfirmLoop(
                    [its EXCEPT ![i].status = "failed",
                                ![i].meta = DictUpdate(@, resp.raw)],
                    cs, i + 1, lg2)

\* any(i.status == "failed" for i in self.request.items)
AnyFailed(its) == \E i \in 1..Len(its) : its[i].status = "failed"

\* confirm_all deciding on the Confirm calls it made alone, not on every item
ConfirmAllResult_OwnFailuresOnly(its, st, cs, xs) ==
    LET c == ConfirmLoop(its, cs, 1, << >>) IN
    IF ~c.returned
    THEN [items |-> c.items, status |-> st, log |-> c.log, returned |-> FALSE]
    ELSE IF \E k \in 1..Len(c.log) : c.log[k].answer = "failure"
    THEN LET k == CompensateLoop(c.items, xs, 1, c.log)
         IN  [items |-> k.items, status |-> "failed", log |-> k.log,
              returned |-> TRUE]
    ELSE [items |-> c.items, status |-> "confirmed", log |-> c.log,
          returned |-> TRUE]

\* confirm_all marking the request failed without running compensate
ConfirmAllResult_SkipsCompensate(its, st, cs, xs) ==
    LET c == ConfirmLoop(its, cs, 1, << >>) IN
    IF ~c.returned
    THEN [items |-> c.items, status |-> st, log |-> c.log, returned |-> FALSE]
    ELSE IF AnyFailed(c.items)
    THEN [items |-> c.items, status |-> "failed", log |-> c.log,
          returned |-> TRUE]
    ELSE [items |-> c.items, status |-> "confirmed", log |-> c.log,
          returned |-> TRUE]

\* the whole of confirm_all: the loop, then the all-or-nothing decision
ConfirmAllResult(its, st, cs, xs) ==
    LET c == ConfirmLoop(its, cs, 1, << >>) IN
    IF ~c.returned
    THEN [items |-> c.items, status |-> st, log |-> c.log, returned |-> FALSE]
    ELSE IF AnyFailed(c.items)
    THEN LET k == CompensateLoop(c.items, xs, 1, c.log)
         IN  [items |-> k.items, status |-> "failed", log |-> k.log,
              returned |-> TRUE]
    ELSE [items |-> c.items, status |-> "confirmed", log |-> c.log,
          returned |-> TRUE]

\* the items compensate asks a provider about when confirm_all runs it
\* (none when confirm_all does not get that far)
CancelAsked(its, cs) ==
    LET c == ConfirmLoop(its, cs, 1, << >>) IN
    IF c.returned /\ AnyFailed(c.items)
    THEN {i \in 1..Len(its) :
            c.items[i].hold_id # None /\ c.items[i].item_type \in providers}
    ELSE {}

\* what the caller is given about failed compensations: confirm_all returns
\* the request alone, and compensate drops every failure (except: pass)
CompensationFailures(lg) == << >>

\* items holding an unconsumed hold whose CancelHold failed (returned false
\* or raised) and has not succeeded since, after the provider calls of lg;
\* its are the items when the call ends
RECURSIVE Unreleased(_, _, _)
Unreleased(u, lg, its) ==
    IF lg = << >> THEN u
    ELSE LET c == Head(lg) IN
         Unreleased(
            IF c.op = "cancel_hold" /\ c.answer = "true" THEN u \ {c.item}
            ELSE IF c.op = "cancel_hold" /\ its[c.item].status # "confirmed"
            THEN u \cup {c.item}
            ELSE IF c.op = "confirm" /\ c.answer = "success" THEN u \ {c.item}
            ELSE u,
            Tail(lg), its)

\* ------------------------------------------------------------------ actions
\* TransactionManager(booking_request, providers) on a request the caller
\* has just built: every item pending, request created
Init ==
    /\ \E n \in 0..MaxItems : \E ts \in [1..n -> RequestTypes] :
          items = [i \in 1..n |-> NewItem(ts[i])]
    /\ status = "created"
    /\ calls = << >>
    /\ returned = TRUE
    /\ before = items
    /\ log = << >>
    /\ failures = << >>
    /\ unreleased = {}
    /\ NoStorage
    /\ NoPlanning

reserve_all ==
    /\ Len(calls) < MaxCalls
    /\ \E rs \in [Reserved -> ReserveAnswers] :
         LET r == ReserveLoop(items, rs, 1, << >>) IN
         /\ items' = r.items
         /\ log' = r.log
         /\ returned' = r.returned
         /\ unreleased' = Unreleased(unreleased, r.log, r.items)
    /\ before' = items
    /\ calls' = Append(calls, "reserve_all")
    /\ failures' = << >>
    /\ UNCHANGED <<status, storage, planning>>

confirm_all ==
    /\ Len(calls) < MaxCalls
    /\ \E cs \in [Held -> ConfirmAnswers] :
       \E xs \in [CancelAsked(items, cs) -> CancelAnswers] :
         LET r == ConfirmAllResult(items, status, cs, xs) IN
         /\ items' = r.items
         /\ status' = r.status
         /\ log' = r.log
         /\ returned' = r.returned
         /\ failures' = CompensationFailures(r.log)
         /\ unreleased' = Unreleased(unreleased, r.log, r.items)
    /\ before' = items
    /\ calls' = Append(calls, "confirm_all")
    /\ UNCHANGED <<storage, planning>>

compensate ==
    /\ Len(calls) < MaxCalls
    /\ \E xs \in [Holding -> CancelAnswers] :
         LET r == CompensateLoop(items, xs, 1, << >>) IN
         /\ items' = r.items
         /\ log' = r.log
         /\ unreleased' = Unreleased(unreleased, r.log, r.items)
    /\ returned' = TRUE
    /\ before' = items
    /\ calls' = Append(calls, "compensate")
    /\ failures' = << >>
    /\ UNCHANGED <<status, storage, planning>>

Next == reserve_all \/ confirm_all \/ compensate

\* any sequence of calls on one orchestrator
Spec == Init /\ [][Next]_vars

\* the saga as the caller runs it once (example_run.main): reserve_all on
\* the new request, then, reserve_all having returned, confirm_all
SagaReserve == calls = << >> /\ reserve_all
SagaConfirm == calls = <<"reserve_all">> /\ returned /\ confirm_all
SagaNext == SagaReserve \/ SagaConfirm
Saga == Init /\ [][SagaNext]_vars

TypeOK ==
    /\ \A i \in Idx : items[i].status \in ItemStatuses
    /\ status \in RequestStatuses
    /\ Len(calls) <= MaxCalls

\* ------------------------------------------------- observing the last call
Last == IF calls = << >> THEN "none" ELSE calls[Len(calls)]

\* the last call put the provider call op to item i / got this answer to it
Asked(op, i) == \E k \in 1..Len(log) : log[k].op = op /\ log[k].item = i
Answered(op, i, answer) ==
    \E k \in 1..Len(log) :
        log[k].op = op /\ log[k].item = i /\ log[k].answer = answer

AllConfirmed(its) == \A i \in 1..Len(its) : its[i].status = "confirmed"

\* the saga has run once on the new request and confirm_all has returned
SagaDone == calls = <<"reserve_all", "confirm_all">> /\ returned

\* every CancelHold of the last call succeeded
CancelsSucceeded ==
    \A k \in 1..Len(log) : log[k].op = "cancel_hold" => log[k].answer = "true"

\* ------------------------------------------------------------------ claims

\* C1: after confirm_all returns, request.status = 'confirmed' if and only
\* if every item of the request has status 'confirmed' (also for items
\* never reserved, and for a confirm_all repeated after a failed one).
C1_AllOrNothing ==
    (Last = "confirm_all" /\ returned)
        => (status = "confirmed" <=> AllConfirmed(items))

\* C2: when reserve_all then confirm_all ends with request.status = 'failed'
\* after some Confirm failed, and every CancelHold succeeded, no item is left
\* 'confirmed', wherever the item whose Confirm failed sits in the order.
C2_FullyReleased ==
    (/\ SagaDone /\ status = "failed" /\ CancelsSucceeded
     /\ \E j \in Idx : Answered("confirm", j, "failure"))
        => \A i \in Idx : items[i].status # "confirmed"

\* the scenario of C3: request [flight, hotel], both Reserve calls succeed,
\* the flight Confirm succeeds, the hotel Confirm fails, both CancelHold
\* calls succeed
C3_Scenario ==
    /\ SagaDone
    /\ Len(items) = 2
    /\ items[1].item_type = "flight" /\ items[2].item_type = "hotel"
    /\ before[1].status = "held" /\ before[2].status = "held"
    /\ Answered("confirm", 1, "success")
    /\ Answered("confirm", 2, "failure")
    /\ Answered("cancel_hold", 1, "true")
    /\ Answered("cancel_hold", 2, "true")

C4_FailedSagaItems ==
    (SagaDone /\ status = "failed") =>
        \A i \in Idx :
            /\ (/\ before[i].status = "held"
                /\ ~Answered("confirm", i, "success")
                /\ Answered("cancel_hold", i, "true"))
                    => items[i].status = "cancelled"
            /\ before[i].status = "failed"
                    => (items[i].status = "failed" /\ ~Asked("cancel_hold", i))

C4_Witness ==
    /\ SagaDone /\ status = "failed"
    /\ \E i, j \in Idx :
        /\ before[i].status = "held"
        /\ Answered("confirm", i, "failure")
        /\ Answered("cancel_hold", i, "true")
        /\ items[i].status = "cancelled"
        /\ before[j].status = "failed"
        /\ Asked("reserve", j) = FALSE
        /\ items[j].status = "failed"

\* C5: after reserve_all returns, every item of the request is 'held' or
\* 'failed', whatever the items' statuses were before the call.
C5_NoPendingAfterReserve ==
    (Last = "reserve_all" /\ returned)
        => \A i \in Idx : items[i].status \in {"held", "failed"}

C5_Witness ==
    /\ Last = "reserve_all" /\ returned
    /\ Len(items) = 2
    /\ before[1].status = "confirmed" /\ items[1].status = "failed"
    /\ before[2].status = "cancelled" /\ items[2].status = "held"

\* C6: under any sequence of reserve_all, confirm_all and compensate calls,
\* an item that has reached status 'confirmed' never changes status again.
C6_ConfirmedIsFinal ==
    [][\A i \in Idx :
        items[i].status = "confirmed" => items'[i].status = "confirmed"]_vars

\* C7: when a CancelHold fails or raises during the compensation run by
\* confirm_all, the result handed to the caller carries a non-empty list of
\* compensation failures naming the affected item, with request.status =
\* 'failed'.
C7_FailuresReported ==
    \A i \in Idx :
        (/\ Last = "confirm_all" /\ returned
         /\ (Answered("cancel_hold", i, "false")
                \/ Answered("cancel_hold", i, "raises")))
            => /\ status = "failed"
               /\ \E k \in 1..Len(failures) : failures[k].item = i

\* C8: request.status is never 'confirmed' while a CancelHold attempted for
\* an item of the request has failed and the item's hold has not since been
\* released by a successful CancelHold.
C8_NoSuccessWithUnreleasedHold ==
    status = "confirmed" => unreleased = {}

\* C9: running the saga again (reserve_all then confirm_all) on a request
\* whose items are all 'confirmed' is a no-op: no Reserve call is issued and
\* every item's status, hold_id and confirmed_id are unchanged.
C9_ConfirmedPassThrough ==
    (/\ Last \in {"reserve_all", "confirm_all"}
     /\ Len(before) > 0
     /\ AllConfirmed(before))
        => /\ \A i \in Idx :
                /\ items[i].status = before[i].status
                /\ items[i].hold_id = before[i].hold_id
                /\ items[i].confirmed_id = before[i].confirmed_id
           /\ \A i \in Idx : ~Asked("reserve", i)

\* C10: in every reachable state no item has status 'held' while its
\* confirmed_id is set.
C10_HoldExclusivity ==
    \A i \in Idx : ~(items[i].status = "held" /\ items[i].confirmed_id # None)

\* the payload of the answer the last call got to the provider call op for
\* item i (the call was made)
RawOf(op, i) ==
    LET k == CHOOSE k \in 1..Len(log) : log[k].op = op /\ log[k].item = i
    IN  log[k].raw

\* the Confirm for item i was answered in the last call: accepted or rejected
ConfirmAnswered(i) ==
    Answered("confirm", i, "success") \/ Answered("confirm", i, "failure")

\* C11: for every item confirmed or rejected by confirm_all, meta afterwards
\* has every key it had after reserve_all, with the reserve-time value unless
\* the Confirm payload supplies that key, whose value then wins; every key
\* of the Confirm payload is present.
C11_MetaMerged ==
    \A i \in Idx :
        (Last = "confirm_all" /\ ConfirmAnswered(i)) =>
            LET raw == RawOf("confirm", i) IN
            /\ \A k \in DOMAIN before[i].meta :
                /\ k \in DOMAIN items[i].meta
                /\ k \notin DOMAIN raw => items[i].meta[k] = before[i].meta[k]
            /\ \A k \in DOMAIN raw :
                k \in DOMAIN items[i].meta /\ items[i].meta[k] = raw[k]

C11_Witness ==
    /\ Last = "confirm_all"
    /\ \E i, j \in Idx :
        /\ Answered("confirm", i, "success")
        /\ before[i].meta = Dict("price", "quoted")
        /\ RawOf("confirm", i) = Dict("price", "charged")
        /\ items[i].meta = Dict("price", "charged")
        /\ Answered("confirm", j, "failure")
        /\ RawOf("confirm", j) = Dict("error", "declined")
        /\ DOMAIN items[j].meta = {"price", "error"}
        /\ items[j].meta["price"] = "quoted"

\* ------------------------------------------- orchestrating a stored booking
\* the states in which reserve_all, confirm_all and compensate leave an item
\* of type t, as a stored booking keeps them
SavedItems(t) ==
    {NewItem(t),
     [item_type |-> t, status |-> "held", hold_id |-> "hold-a",
      confirmed_id |-> None, meta |-> Dict("price", "quoted")],
     [item_type |-> t, status |-> "failed", hold_id |-> None,
      confirmed_id |-> None, meta |-> EmptyDict],
     [item_type |-> t, status |-> "failed", hold_id |-> "hold-a",
      confirmed_id |-> None, meta |-> Dict("price", "quoted")],
     [item_type |-> t, status |-> "confirmed", hold_id |-> "hold-a",
      confirmed_id |-> "CONF-a",
      meta |-> DictUpdate(Dict("price", "quoted"), Dict("ticket", "issued"))],
     [item_type |-> t, status |-> "cancelled", hold_id |-> "hold-a",
      confirmed_id |-> None, meta |-> Dict("price", "quoted")]}

\* the item types of the stored bookings explored: one with a provider in
\* PROVIDERS, one without
LoadedTypes == {"flight", "attraction"}

\* TransactionManager(pyd_req, PROVIDERS) on a booking loaded from storage
\* (handle_stripe_checkout_completed): the items are as earlier phases left
\* them
LoadedInit ==
    /\ \E n \in 0..MaxItems :
         items \in [1..n -> UNION {SavedItems(t) : t \in LoadedTypes}]
    /\ status \in {"created", "confirmed", "failed"}
    /\ calls = << >>
    /\ returned = TRUE
    /\ before = items
    /\ log = << >>
    /\ failures = << >>
    /\ unreleased = {}
    /\ NoStorage
    /\ NoPlanning

\* compensate called again and again on a stored booking
Release == LoadedInit /\ [][compensate]_vars

\* C12: calling compensate twice in succession never lets an exception
\* escape, never changes the status of a 'confirmed' item, and, when the
\* CancelHold calls succeed, the second call leaves every item in the status
\* the first call left it in.
C12_CompensateTwice ==
    [][(Last = "compensate" /\ calls' = Append(calls, "compensate")) =>
        /\ returned /\ returned'
        /\ \A i \in Idx :
            before[i].status = "confirmed" =>
                (items[i].status = "confirmed" /\ items'[i].status = "confirmed")
        /\ (/\ CancelsSucceeded
            /\ \A k \in 1..Len(log') :
                    log'[k].op = "cancel_hold" => log'[k].answer = "true")
                => \A i \in Idx : items'[i].status = items[i].status]_vars

C12_Witness ==
    /\ Len(calls) >= 2
    /\ calls[Len(calls) - 1] = "compensate" /\ Last = "compensate"
    /\ CancelsSucceeded
    /\ \E i, j \in Idx :
        /\ items[i].status = "confirmed"
        /\ Answered("cancel_hold", i, "true")
        /\ before[j].status = "cancelled"
        /\ items[j].status = "cancelled"
        /\ Answered("cancel_hold", j, "true")

\* how many times the last call put the provider call op to item i
TimesAsked(op, i) ==
    Cardinality({k \in 1..Len(log) : log[k].op = op /\ log[k].item = i})

\* C13: in reserve_all an item whose item_type has no mapped provider ends
\* 'failed' with meta = {error: 'no_provider'} and gets no provider call,
\* and every other item is still processed, its Reserve being called exactly
\* once, wherever the unmapped item sits in the item order.
C13_NoProviderMapped ==
    (Last = "reserve_all" /\ returned) =>
        \A i \in Idx :
            IF items[i].item_type \in providers
            THEN /\ TimesAsked("reserve", i) = 1
                 /\ items[i].status \in {"held", "failed"}
            ELSE /\ items[i].status = "failed"
                 /\ items[i].meta = Dict("error", "no_provider")
                 /\ \A k \in 1..Len(log) : log[k].item # i

C13_Witness ==
    /\ Last = "reserve_all" /\ returned
    /\ Len(items) = 2
    /\ items[1].item_type = "attraction"
    /\ items[1].status = "failed"
    /\ items[1].meta = Dict("error", "no_provider")
    /\ items[2].item_type = "hotel"
    /\ items[2].status = "held"
    /\ TimesAsked("reserve", 2) = 1

C15_CancelledWasReleased ==
    [][\A i \in Idx :
        (items'[i].status = "cancelled" /\ items[i].status # "cancelled") =>
            /\ items[i].hold_id \in HoldIds
            /\ \E k \in 1..Len(log') :
                /\ log'[k].op = "cancel_hold"
                /\ log'[k].item = i
                /\ log'[k].hold_id = items[i].hold_id
                /\ log'[k].answer = "true"]_vars

\* C16: in a run of reserve_all followed by confirm_all no Confirm is issued
\* unless every item was successfully reserved: if any item is 'failed'
\* after reserve_all, confirm_all confirms nothing.
C16_NoCaptureUnlessAllReserved ==
    (/\ calls = <<"reserve_all", "confirm_all">>
     /\ \E i \in Idx : before[i].status # "held")
        => \A j \in Idx : ~Asked("confirm", j)

\* C17: if a CancelHold of compensate reports failure (returns false) or
\* raises, the item's status is left unchanged; the item becomes 'cancelled'
\* only when CancelHold reports success.
C17_FailedCancelLeavesStatus ==
    Last = "compensate" =>
        \A i \in Idx :
            /\ (Answered("cancel_hold", i, "false")
                    \/ Answered("cancel_hold", i, "raises"))
                => items[i].status = before[i].status
            /\ (items[i].status = "cancelled" /\ before[i].status # "cancelled")
                => Answered("cancel_hold", i, "true")

\* C18: if a provider's Reserve or Confirm raises, the affected item ends
\* the phase 'failed', the phase goes on with the remaining items and no
\* exception escapes reserve_all or confirm_all.
C18_UnavailableIsFailed ==
    Last \in {"reserve_all", "confirm_all"} =>
        /\ returned
        /\ \A i \in Idx :
            (Answered("reserve", i, "raises") \/ Answered("confirm", i, "raises"))
                => items[i].status = "failed"

\* the last call invoked CancelHold on the hold id item i carries
CancelInvoked(i) ==
    \E k \in 1..Len(log) :
        /\ log[k].op = "cancel_hold"
        /\ log[k].item = i
        /\ log[k].hold_id = items[i].hold_id

\* C19: no dangling holds: after reserve_all followed by confirm_all either
\* every item is 'confirmed' or CancelHold has been invoked on the hold id
\* of every item whose Reserve succeeded; and after a reserve_all that was
\* aborted, a following compensate invokes CancelHold for every hold issued.
C19_NoDanglingHolds ==
    /\ calls = <<"reserve_all", "confirm_all">> =>
        \/ AllConfirmed(items)
        \/ \A i \in Idx : items[i].hold_id # None => CancelInvoked(i)
    /\ calls = <<"reserve_all", "compensate">> =>
        \A i \in Idx : items[i].hold_id # None => CancelInvoked(i)

\* C20: under any sequence of reserve_all, confirm_all and compensate, every
\* provider Confirm is made on an item that is 'held' at the moment of the
\* call: only confirm_all issues Confirm calls, at most one per item, and
\* only for items that were 'held' when it reached them; pending, failed,
\* cancelled and confirmed items never receive a Confirm.
C20_ConfirmOnlyHeld ==
    /\ Last # "confirm_all" => \A i \in Idx : ~Asked("confirm", i)
    /\ Last = "confirm_all" =>
        \A i \in Idx :
            /\ TimesAsked("confirm", i) <= 1
            /\ Asked("confirm", i) => before[i].status = "held"

\* confirm_all met a cancelled item, which it passed over, and a held item,
\* which it confirmed
C20_Witness ==
    /\ Last = "confirm_all"
    /\ \E i, j \in Idx :
        /\ before[i].status = "cancelled"
        /\ ~Asked("confirm", i)
        /\ before[j].status = "held"
        /\ Asked("confirm", j)

\* some item is 'failed' once the Confirm loop of the last confirm_all is
\* through: it was 'failed' on entry (and skipped) or its Confirm was rejected
FailedAfterConfirms ==
    \E i \in Idx :
        before[i].status = "failed" \/ Answered("confirm", i, "failure")

Positions(op) == {k \in 1..Len(log) : log[k].op = op}

\* C22: confirm_all is a barrier: the first CancelHold (and with it the
\* all-or-nothing decision) comes only after the Confirm of every item that
\* was 'held' on entry has returned, and no CancelHold lies between two
\* Confirm calls of the same confirm_all.
C22_ConfirmBarrier ==
    Last = "confirm_all" =>
        /\ \A c \in Positions("confirm") : \A x \in Positions("cancel_hold") :
                c < x
        /\ Positions("cancel_hold") # {} =>
                \A i \in Idx :
                    before[i].status = "held" =>
                        \/ Answered("confirm", i, "success")
                        \/ Answered("confirm", i, "failure")

\* the first Confirm was rejected, the second was still made, and the
\* CancelHold calls came after both
C22_Witness ==
    /\ Last = "confirm_all"
    /\ Len(items) = 2
    /\ before[1].status = "held" /\ before[2].status = "held"
    /\ Answered("confirm", 1, "failure")
    /\ Asked("confirm", 2)
    /\ Asked("cancel_hold", 1)
    /\ Asked("cancel_hold", 2)

\* C23: compensate invokes CancelHold exactly once for every item with a
\* non-empty hold_id, 'confirmed' and 'failed' items included, and never for
\* an item without one; where CancelHold succeeds the item ends 'cancelled'
\* exactly if it was not 'confirmed', a 'confirmed' item staying 'confirmed'.
C23_CompensateCalls ==
    Last = "compensate" =>
        \A i \in Idx :
            /\ TimesAsked("cancel_hold", i) =
                    IF before[i].hold_id # None THEN 1 ELSE 0
            /\ \A k \in Positions("cancel_hold") :
                    log[k].item = i => log[k].hold_id = before[i].hold_id
            /\ Answered("cancel_hold", i, "true") =>
                    items[i].status = IF before[i].status = "confirmed"
                                      THEN "confirmed" ELSE "cancelled"
            /\ ~Asked("cancel_hold", i) => items[i] = before[i]

\* compensate released the stale hold of a confirmed item, which stayed
\* confirmed, and passed by an item that never had a hold
C23_Witness ==
    /\ Last = "compensate"
    /\ \E i, j \in Idx :
        /\ before[i].status = "confirmed"
        /\ Answered("cancel_hold", i, "true")
        /\ items[i].status = "confirmed"
        /\ before[j].hold_id = None
        /\ ~Asked("cancel_hold", j)

\* C26: reserve_all leaves request.status and every item's confirmed_id as
\* they were and changes an item's hold_id only when the Reserve for it
\* succeeded (to the hold id the provider returned); after reserve_all on a
\* new request, request.status is still 'created'.
C26_ReserveFrame ==
    [][calls' = Append(calls, "reserve_all") =>
        /\ status' = status
        /\ calls = << >> => status' = "created"
        /\ Len(items') = Len(items)
        /\ \A i \in Idx :
            /\ items'[i].confirmed_id = items[i].confirmed_id
            /\ items'[i].item_type = items[i].item_type
            /\ items'[i].hold_id # items[i].hold_id =>
                \E k \in 1..Len(log') :
                    /\ log'[k].op = "reserve"
                    /\ log'[k].item = i
                    /\ log'[k].answer = "success"
                    /\ log'[k].hold_id = items'[i].hold_id]_vars

\* reserve_all ran on a request that had been confirmed: one item kept its
\* hold id through a rejected Reserve, the other got a new one from a
\* successful Reserve, and both kept their confirmed_id
C26_Witness ==
    /\ Last = "reserve_all"
    /\ \E i, j \in Idx :
        /\ before[i].hold_id = "hold-a"
        /\ Answered("reserve", i, "failure")
        /\ items[i].hold_id = "hold-a"
        /\ before[j].hold_id = "hold-a"
        /\ Answered("reserve", j, "success")
        /\ items[j].hold_id = "hold-b"
        /\ before[j].confirmed_id # None
        /\ items[j].confirmed_id = before[j].confirmed_id

\* C27: a Reserve rejected with a ProviderResponse built without raw leaves
\* the item's meta {error: 'reserve_failed'} after reserve_all, and a
\* Confirm rejected without raw adds error = 'confirm_failed' to the meta.
C27_DefaultErrorMeta ==
    \A i \in Idx :
        /\ (/\ Last = "reserve_all"
            /\ Answered("reserve", i, "failure")
            /\ RawOf("reserve", i) = EmptyDict)
                => items[i].meta = Dict("error", "reserve_failed")
        /\ (/\ Last = "confirm_all"
            /\ Answered("confirm", i, "failure")
            /\ RawOf("confirm", i) = EmptyDict)
                => /\ "error" \in DOMAIN items[i].meta
                   /\ items[i].meta["error"] = "confirm_failed"

\* ------------------------------------------ the payment-completed handler
\* database ids of the stored bookings, as the session metadata carries them
\* (str(db_req.id)), and the ids an event names: none, a stored one, an
\* unknown one
BookingIds == {"1"}
SessionBookingIds == {None, "1", "2"}

\* the deliveries of one checkout.session.completed event: the payment
\* gateway delivers it once more when the first delivery is not acknowledged
\* in time
Deliveries == {1, 2}

\* crud.get_booking_by_id followed by crud.model_to_pydantic: the stored
\* booking as a BookingRequest; absent when no booking has the id
Stored(d, id) == id \in DOMAIN d
get_booking_by_id(d, id) == d[id]

\* crud.save_updates_from_pydantic: the stored booking takes the status of
\* the request and the status, ids and meta of its items
save_updates_from_pydantic(d, id, updated) == [d EXCEPT ![id] = updated]

\* the held items of a request some orchestrator works on
HeldIn(its) ==
    {i \in 1..Len(its) :
        its[i].status = "held" /\ its[i].item_type \in providers}

\* the Confirm calls for item i among the provider calls lg
ConfirmsIn(lg, i) ==
    Cardinality({k \in 1..Len(lg) : lg[k].op = "confirm" /\ lg[k].item = i})

\* an item as reserve_all leaves it in a booking stored before payment
AfterReserve(t) ==
    IF t \in providers
    THEN {[item_type |-> t, status |-> "held", hold_id |-> "hold-a",
           confirmed_id |-> None, meta |-> Dict("price", "quoted")],
          [item_type |-> t, status |-> "failed", hold_id |-> None,
           confirmed_id |-> None, meta |-> EmptyDict]}
    ELSE {[item_type |-> t, status |-> "failed", hold_id |-> None,
           confirmed_id |-> None, meta |-> Dict("error", "no_provider")]}

\* no orchestrator works on a request of its own: the handlers build theirs
NoSaga ==
    /\ items = << >>
    /\ status = "created"
    /\ calls = << >>
    /\ returned = TRUE
    /\ before = << >>
    /\ log = << >>
    /\ failures = << >>
    /\ unreleased = {}

\* a booking stored after reserve_all, and one payment-completed event, naming
\* some booking id, about to be delivered twice
CheckoutInit ==
    /\ \E n \in 1..MaxItems :
       \E its \in [1..n -> UNION {AfterReserve(t) : t \in LoadedTypes}] :
          /\ db = [b \in BookingIds |-> [items |-> its, status |-> "created"]]
          /\ confirms = [i \in 1..n |-> 0]
    /\ \E id \in SessionBookingIds :
          handlers = [h \in Deliveries |->
                        [pc |-> "received", booking_db_id |-> id,
                         items |-> << >>, status |-> "created",
                         overlaps |-> FALSE]]
    /\ saved = << >>
    /\ payload = << >>
    /\ NoSaga
    /\ NoPlanning

\* an execution that has loaded the booking and not yet saved or failed
InFlight(h) == handlers[h].pc \in {"loaded", "confirmed"}

\* handle_stripe_checkout_completed up to the request it builds: no booking
\* id in the metadata or no such booking ends the execution with an error
LoadBooking(h) ==
    /\ handlers[h].pc = "received"
    /\ LET id == handlers[h].booking_db_id IN
       IF id = None \/ ~Stored(db, id)
       THEN handlers' = [handlers EXCEPT ![h].pc = "error"]
       ELSE LET pyd_req == get_booking_by_id(db, id) IN
            handlers' = [handlers EXCEPT
                ![h].pc = "loaded",
                ![h].items = pyd_req.items,
                ![h].status = pyd_req.status,
                ![h].overlaps = \E g \in Deliveries \ {h} : InFlight(g)]
    /\ UNCHANGED <<db, confirms, saved, payload, saga, planning>>

\* TransactionManager(pyd_req, PROVIDERS).confirm_all(payment_auth); an
\* exception of confirm_all ends the execution before anything is saved
ConfirmBooking(h) ==
    /\ handlers[h].pc = "loaded"
    /\ \E cs \in [HeldIn(handlers[h].items) -> ConfirmAnswers] :
       \E xs \in [CancelAsked(handlers[h].items, cs) -> CancelAnswers] :
         LET updated == ConfirmAllResult(handlers[h].items,
                                         handlers[h].status, cs, xs)
         IN  /\ handlers' = [handlers EXCEPT
                    ![h].pc = IF updated.returned THEN "confirmed"
                              ELSE "raised",
                    ![h].items = updated.items,
                    ![h].status = updated.status]
             /\ confirms' = [i \in DOMAIN confirms |->
                                confirms[i] + ConfirmsIn(updated.log, i)]
    /\ UNCHANGED <<db, saved, payload, saga, planning>>

\* crud.save_updates_from_pydantic(db, db_req, updated) and the return
SaveBooking(h) ==
    /\ handlers[h].pc = "confirmed"
    /\ LET updated == [items |-> handlers[h].items,
                       status |-> handlers[h].status]
       IN  /\ db' = save_updates_from_pydantic(
                        db, handlers[h].booking_db_id, updated)
           /\ saved' = Append(saved, updated)
    /\ handlers' = [handlers EXCEPT ![h].pc = "done"]
    /\ UNCHANGED <<confirms, payload, saga, planning>>

CheckoutNext ==
    \E h \in Deliveries : LoadBooking(h) \/ ConfirmBooking(h) \/ SaveBooking(h)

\* the two deliveries handled by workers that run at the same time
Checkout == CheckoutInit /\ [][CheckoutNext]_vars

\* C24: calls on one stored booking are serialized: when the
\* payment-completed event of a booking is delivered twice and the two
\* executions of the handler overlap, no item receives the provider Confirm
\* call twice and the booking stored in the end is the one a single
\* execution saved.
C24_SerializedDeliveries ==
    (/\ \A h \in Deliveries : handlers[h].pc = "done"
     /\ \E h \in Deliveries : handlers[h].overlaps)
        => /\ \A i \in DOMAIN confirms : confirms[i] <= 1
           /\ db["1"] = saved[1]

\* ------------------------------------------- the provider-status webhook
\* the item_id values of the stored items and of the notifications: two of
\* stored items, one no item has
StoredItemIds == {"flight-1", "hotel-1"}
NotifiedItemIds == {None, "flight-1", "cab-9"}

\* the fields of a notification: payload.get("status") is None when the
\* key is absent, payload.get("meta", {}) the empty dict
NotifiedStatuses == {None, "confirmed"}
NotifiedMetas == {EmptyDict, Dict("price", "charged")}

\* a stored item (BookingItemModel): the fields of the item and its item_id
StoredItem(it, id) ==
    [item_id |-> id, item_type |-> it.item_type, status |-> it.status,
     hold_id |-> it.hold_id, confirmed_id |-> it.confirmed_id,
     meta |-> it.meta]

\* the loop over db_req.items: the first item with the item_id, 0 if none
RECURSIVE FindItem(_, _, _)
FindItem(its, id, k) ==
    IF k > Len(its) THEN 0
    ELSE IF its[k].item_id = id THEN k
    ELSE FindItem(its, id, k + 1)

\* what db.commit() writes for the meta column (a plain JSON column,
\* persistence/models.py:37, whose changes in place are not tracked): the
\* unit of work writes a column when the value assigned differs from the
\* value it holds as loaded. `item_model.meta or {}` is the loaded dict
\* itself unless that is empty, update() changes it in place, and the
\* assignment then hands back the very object held as loaded
CommittedMeta(old, meta) ==
    LET existing_meta == DictUpdate(old, meta)
        loaded == IF old = EmptyDict THEN old ELSE existing_meta
    IN  IF existing_meta # loaded THEN existing_meta ELSE old

\* a stored booking in any state a saga may have left it in, and no
\* notification applied yet
WebhookInit ==
    /\ \E n \in 1..MaxItems :
       \E its \in [1..n -> SavedItems("flight")] :
       \E ids \in [1..n -> StoredItemIds] :
          /\ ids[1] = "flight-1"
          /\ db = [b \in BookingIds |->
                    [items |-> [i \in 1..n |-> StoredItem(its[i], ids[i])],
                     status |-> "created"]]
    /\ payload = [seq |-> 0, booking_db_id |-> None, item_id |-> None,
                  status |-> None, meta |-> EmptyDict, response |-> None]
    /\ handlers = << >>
    /\ confirms = << >>
    /\ saved = << >>
    /\ NoSaga
    /\ NoPlanning

\* POST /webhook/provider
provider_webhook ==
    /\ payload.seq < MaxCalls
    /\ \E booking_db_id \in SessionBookingIds :
       \E item_id \in NotifiedItemIds :
       \E st \in NotifiedStatuses :
       \E meta \in NotifiedMetas :
         LET notified(resp) ==
                [seq |-> payload.seq + 1, booking_db_id |-> booking_db_id,
                 item_id |-> item_id, status |-> st, meta |-> meta,
                 response |-> resp]
         IN  IF booking_db_id = None \/ item_id = None
             THEN payload' = notified("400") /\ db' = db
             ELSE IF ~Stored(db, booking_db_id)
             THEN payload' = notified("404") /\ db' = db
             ELSE LET db_req == get_booking_by_id(db, booking_db_id)
                      k == FindItem(db_req.items, item_id, 1)
                  IN  IF k = 0
                      THEN payload' = notified("404") /\ db' = db
                      ELSE /\ payload' = notified("ok")
                           /\ db' = [db EXCEPT
                                ![booking_db_id].items[k].status = st,
                                ![booking_db_id].items[k].meta =
                                    CommittedMeta(@, meta)]
    /\ UNCHANGED <<handlers, confirms, saved, saga, planning>>

\* notifications arriving one after the other for a stored booking
Webhook == WebhookInit /\ [][provider_webhook]_vars

\* C28: the provider-status webhook stores the update with the merge of
\* confirm_all (keys of the incoming meta win, every other key is kept),
\* changes only the status and the meta of the one item whose item_id
\* matches, and leaves the stored booking as it is when the booking id or
\* the item id is missing or not found.
C28_WebhookUpdate ==
    [][payload'.seq = payload.seq + 1 =>
        LET b == payload'.booking_db_id
            k == IF b \in BookingIds
                 THEN FindItem(db[b].items, payload'.item_id, 1) ELSE 0
        IN  IF k = 0 THEN db' = db
            ELSE db' = [db EXCEPT
                    ![b].items[k].status = payload'.status,
                    ![b].items[k].meta = DictUpdate(@, payload'.meta)]]_vars

\* a provider call of the last orchestrator call raised
SomeCallRaised == \E k \in 1..Len(log) : log[k].answer = "raises"

\* C25: the orchestrator never retries and its phases end: one reserve_all
\* issues exactly one Reserve per item with a mapped provider (none for the
\* others), one confirm_all at most one Confirm and at most one CancelHold
\* per item, and each of them returns, after at most one provider call per
\* item and kind, when every provider call returns.
C25_NoRetry ==
    /\ Last = "reserve_all" =>
        /\ ~SomeCallRaised =>
            /\ returned
            /\ \A i \in Idx :
                TimesAsked("reserve", i) =
                    IF items[i].item_type \in providers THEN 1 ELSE 0
        /\ \A i \in Idx : TimesAsked("reserve", i) <= 1
        /\ Len(log) <= Len(items)
    /\ Last = "confirm_all" =>
        /\ \A i \in Idx :
            /\ TimesAsked("confirm", i) <= 1
            /\ TimesAsked("cancel_hold", i) <= 1
            /\ ~Asked("reserve", i)
        /\ Len(log) <= 2 * Len(items)
        /\ (\A k \in Positions("confirm") : log[k].answer # "raises")
                => returned

\* reserve_all returned having asked once for an item the provider rejected
\* and not at all for an item without provider
C25_Witness ==
    /\ Last = "reserve_all"
    /\ returned
    /\ \E i, j \in Idx :
        /\ Answered("reserve", i, "failure")
        /\ TimesAsked("reserve", i) = 1
        /\ items[j].item_type \notin providers
        /\ TimesAsked("reserve", j) = 0

\* ---------------------------------------------------- the planning graph
\* a message of AgentState.messages, as far as the graph looks at it:
\* its class, whether its content starts with "VERIFIER:", whether its
\* content names a price the verifier cannot parse or finds out of range,
\* and whether it carries tool calls
Message(kind, verifier, bad, tool_calls) ==
    [kind |-> kind, verifier |-> verifier, bad |-> bad,
     tool_calls |-> tool_calls]

\* the recheck prompt of verifier_node: a HumanMessage starting with
\* "VERIFIER:"; its text repeats the problems found ('price_format',
\* 'Could not parse price'), so it names a price without giving one
recheck_prompt == Message("human", TRUE, TRUE, FALSE)

\* the loop of verifier_node over ALL accumulated messages
Problems(msgs) == \E k \in 1..Len(msgs) : msgs[k].bad

\* the planner passes made so far
Passes == Cardinality({k \in 1..Len(messages) : messages[k].kind = "ai"})

\* app.stream({"messages": [HumanMessage(content=user_request)]}): the
\* user's request is any text
AgentInit ==
    /\ \E verifier \in BOOLEAN : \E bad \in BOOLEAN :
          messages = <<Message("human", verifier, bad, FALSE)>>
    /\ node = "planner"
    /\ NoSaga
    /\ NoStorage

\* the model answers, with tool calls or without
planner_node ==
    /\ node = "planner"
    /\ Passes < MaxPasses
    /\ \E bad \in BOOLEAN : \E tool_calls \in BOOLEAN :
          messages' = Append(messages, Message("ai", FALSE, bad, tool_calls))
    /\ node' = "router"
    /\ UNCHANGED <<saga, storage>>

router ==
    /\ node = "router"
    /\ node' = IF messages[Len(messages)].tool_calls THEN "tools"
               ELSE "formatter"
    /\ UNCHANGED <<messages, saga, storage>>

\* ToolNode(tools), then the edge tools -> verifier
tools ==
    /\ node = "tools"
    /\ \E bad \in BOOLEAN :
          messages' = Append(messages, Message("tool", FALSE, bad, FALSE))
    /\ node' = "verifier"
    /\ UNCHANGED <<saga, storage>>

verifier_node ==
    /\ node = "verifier"
    /\ messages' = IF Problems(messages)
                   THEN Append(messages, recheck_prompt)
                   ELSE messages
    /\ node' = "verifier_router"
    /\ UNCHANGED <<saga, storage>>

\* planner as soon as any HumanMessage of the list starts with "VERIFIER:"
verifier_router ==
    /\ node = "verifier_router"
    /\ node' = IF \E k \in 1..Len(messages) :
                    messages[k].kind = "human" /\ messages[k].verifier
               THEN "planner"
               ELSE "formatter"
    /\ UNCHANGED <<messages, saga, storage>>

\* formatter_node, then the edge formatter -> END
formatter_node ==
    /\ node = "formatter"
    /\ node' = "END"
    /\ UNCHANGED <<messages, saga, storage>>

workflow ==
    \/ planner_node
    \/ router
    \/ tools
    \/ verifier_node
    \/ verifier_router
    \/ formatter_node

Agent == AgentInit /\ [][workflow]_vars

\* the verifier pass that has just run appended no recheck prompt: the
\* list still ends with the tool output the pass was run for
PassFoundNoProblems == messages[Len(messages)].kind # "human"

\* C29: whenever a verifier pass finds no problems, the verifier router
\* moves on to the formatter, whatever earlier passes of the run reported:
\* a "VERIFIER:" message already in the list does not send a clean pass
\* back to the planner.
C29_CleanPassMovesOn ==
    [][(node = "verifier_router" /\ PassFoundNoProblems)
            => node' = "formatter"]_vars
====
